---- MODULE Spec2Model ----
(***************************************************************************)
(* A model of the rust-raytracer shading core and asset importers:         *)
(*   src/cooktorrancematerial.rs   CookTorranceMaterial and its            *)
(*                                 impl Material (sample, is_reflective,   *)
(*                                 is_refractive, global_specular, ...)    *)
(*   src/src/util/import.rs        from_obj, from_image                    *)
(*   src/util/import.rs            from_obj (older revision)               *)
(*                                                                         *)
(* f64 values are modelled as fixed-point numbers with three decimal       *)
(* places (the integer v stands for v / SCALE) together with the IEEE-754  *)
(* special values NaN, +Infinity and -Infinity.  The special values        *)
(* propagate as IEEE-754 prescribes.  The sign of zero is not modelled: a  *)
(* zero divisor is taken to be +0.                                         *)
(***************************************************************************)
EXTENDS Integers, Sequences, FiniteSets, TLC

VARIABLES
    mat,        \* the shared CookTorranceMaterial (its twelve fields)
    mat0,       \* the field values the material was constructed with
    pc,         \* per caller: "idle", "running" (inside a method) or "done"
    call,       \* per caller: the method being run and its arguments
    ret,        \* per caller: what the last finished call returned
    imgSrc,     \* from_image: what ::image::open(path) yields
    imgPc,      \* from_image: "start", "done" or "off"
    imgRet,     \* from_image: the Result<Surface, String> returned
    objFile,    \* from_obj: the lines of the file, each a sequence of tokens
    objFlip,    \* from_obj: the flip_normals argument
    objRev,     \* from_obj: which revision of import.rs runs ("new" or "old")
    objPos,     \* from_obj: index of the next line to read
    objPc,      \* from_obj: "open", "reading", "done", "panic" or "off"
    objIo,      \* from_obj: what opening the file meets: "ok", "noopen", "nometa"
    vertices,   \* from_obj: Vec<Vec3> of "v" lines
    normals,    \* from_obj: Vec<Vec3> of "vn" lines
    tex_coords, \* from_obj: Vec of "vt" lines
    triangles   \* from_obj: the triangles pushed so far

matVars == <<mat, mat0, pc, call, ret>>
imgVars == <<imgSrc, imgPc, imgRet>>
objVars == <<objFile, objFlip, objRev, objPos, objPc, objIo, vertices, normals, tex_coords, triangles>>
vars == <<mat, mat0, pc, call, ret, imgSrc, imgPc, imgRet,
          objFile, objFlip, objRev, objPos, objPc, objIo, vertices, normals, tex_coords, triangles>>

(***************************************************************************)
(* f64 arithmetic                                                          *)
(***************************************************************************)
\* One unit of the fixed-point representation: v stands for v / SCALE.
SCALE == 10 * 10 * 10

Fin(v) == [k |-> "fin", v |-> v]
NaN == [k |-> "nan", v |-> 0]
PInf == [k |-> "inf", v |-> 1]
NInf == [k |-> "inf", v |-> -1]
Zero == Fin(0)
One == Fin(SCALE)
Two == Fin(2 * SCALE)

IsFinite(a) == a.k = "fin"
IsNaN(a) == a.k = "nan"

Abs(x) == IF x < 0 THEN -x ELSE x
Sgn(x) == IF x < 0 THEN -1 ELSE IF x > 0 THEN 1 ELSE 0
\* Integer division rounding toward zero.
TDiv(a, b) == Sgn(a) * Sgn(b) * (Abs(a) \div Abs(b))
InfOf(s) == IF s < 0 THEN NInf ELSE PInf

FNeg(a) ==
    IF a.k = "nan" THEN NaN
    ELSE IF a.k = "inf" THEN InfOf(-a.v)
    ELSE Fin(-a.v)

FAdd(a, b) ==
    IF a.k = "nan" \/ b.k = "nan" THEN NaN
    ELSE IF a.k = "inf" /\ b.k = "inf" THEN (IF a.v = b.v THEN a ELSE NaN)
    ELSE IF a.k = "inf" THEN a
    ELSE IF b.k = "inf" THEN b
    ELSE Fin(a.v + b.v)

FSub(a, b) == FAdd(a, FNeg(b))

FMul(a, b) ==
    IF a.k = "nan" \/ b.k = "nan" THEN NaN
    ELSE IF a.k = "inf" \/ b.k = "inf"
         THEN (IF Sgn(a.v) * Sgn(b.v) = 0 THEN NaN ELSE InfOf(Sgn(a.v) * Sgn(b.v)))
    ELSE Fin(TDiv(a.v * b.v, SCALE))

FDiv(a, b) ==
    IF a.k = "nan" \/ b.k = "nan" THEN NaN
    ELSE IF a.k = "inf" /\ b.k = "inf" THEN NaN
    ELSE IF a.k = "inf" THEN InfOf(a.v * (IF b.v < 0 THEN -1 ELSE 1))
    ELSE IF b.k = "inf" THEN Zero
    ELSE IF b.v = 0 THEN (IF a.v = 0 THEN NaN ELSE InfOf(a.v))
    ELSE Fin(TDiv(a.v * SCALE, b.v))

\* a > b on f64: false when either side is NaN.
FGt(a, b) ==
    IF a.k = "nan" \/ b.k = "nan" THEN FALSE
    ELSE IF a.k = "inf" /\ b.k = "inf" THEN a.v > b.v
    ELSE IF a.k = "inf" THEN a.v > 0
    ELSE IF b.k = "inf" THEN b.v < 0
    ELSE a.v > b.v

\* f64::min: when one argument is NaN the other is returned.
FMin(a, b) ==
    IF a.k = "nan" THEN b
    ELSE IF b.k = "nan" THEN a
    ELSE IF FGt(a, b) THEN b ELSE a

\* f64::powf with the whole exponents the code uses (2.0 and 5.0).
RECURSIVE FPow(_, _)
FPow(a, n) == IF n = 1 THEN a ELSE FMul(a, FPow(a, n - 1))

\* The largest r in lo..hi with r * r <= n.
RECURSIVE ISqrtIn(_, _, _)
ISqrtIn(n, lo, hi) ==
    IF lo >= hi THEN lo
    ELSE LET mid == (lo + hi + 1) \div 2
         IN  IF mid * mid <= n THEN ISqrtIn(n, mid, hi) ELSE ISqrtIn(n, lo, mid - 1)

\* Arguments stay below 40000^2, so the root is searched in 0..40000.
ISqrt(n) == ISqrtIn(n, 0, IF n < 40000 THEN n ELSE 40000)

\* f64::sqrt: NaN for a negative argument.
FSqrt(a) ==
    IF a.k = "nan" THEN NaN
    ELSE IF a.k = "inf" THEN (IF a.v > 0 THEN PInf ELSE NaN)
    ELSE IF a.v < 0 THEN NaN
    ELSE Fin(ISqrt(a.v * SCALE))

\* acos on [0, 1]: sqrt(1 - x) * (1.571 - 0.212 x + 0.074 x^2 - 0.019 x^3)
\* (Abramowitz and Stegun 4.4.45), exact at x = 1.
AcosPos(x) ==
    LET x2 == TDiv(x * x, SCALE)
        x3 == TDiv(x2 * x, SCALE)
        poly == 1571 - TDiv(212 * x, SCALE) + TDiv(74 * x2, SCALE) - TDiv(19 * x3, SCALE)
    IN  TDiv(ISqrt((SCALE - x) * SCALE) * poly, SCALE)

\* f64::acos: NaN outside [-1, 1]; acos(-x) = pi - acos(x).
FAcos(a) ==
    IF a.k # "fin" THEN NaN
    ELSE IF Abs(a.v) > SCALE THEN NaN
    ELSE IF a.v >= 0 THEN Fin(AcosPos(a.v))
    ELSE Fin(3142 - AcosPos(-a.v))

\* a * b / 10^6: the product of two values held in millionths, taken in parts
\* that stay inside TLC's integers.
Mul6(a, b) ==
    LET ah == a \div 1000
        al == a % 1000
        bh == b \div 1000
        bl == b % 1000
    IN  ah * bh + (ah * bl + al * bh) \div 1000 + (al * bl) \div 1000000

\* exp(r / 10^6) in millionths for 0 <= r < ln 2, by the Taylor series in
\* Horner form.
RECURSIVE ExpFrac6(_, _)
ExpFrac6(r, k) ==
    IF k > 12 THEN 1000000
    ELSE 1000000 + Mul6(r, ExpFrac6(r, k + 1)) \div k

RECURSIVE Pow2(_)
Pow2(k) == IF k = 0 THEN 1 ELSE 2 * Pow2(k - 1)

\* exp(x / SCALE) = 2^k * exp(r) with x = k * ln 2 + r and 0 <= r < ln 2
\* (ln 2 = 0.693147), rounded to the representation.  The exact power of two
\* keeps the result finite wherever the code's is; one above the integers the
\* representation has (x > 14.5) is not evaluated.
ExpFinite(x) ==
    LET micro == x * (1000000 \div SCALE)
        k == micro \div 693147
        e6 == ExpFrac6(micro - k * 693147, 1)
        unit == 1000000 \div SCALE
    IN  IF k >= 0
        THEN (e6 \div unit) * Pow2(k) + ((e6 % unit) * Pow2(k) + unit \div 2) \div unit
        ELSE (e6 + (unit * Pow2(-k)) \div 2) \div (unit * Pow2(-k))

\* f64::exp: infinite above ln(f64::MAX) = 709.782, zero to the last digit
\* kept below -14.
FExp(a) ==
    IF a.k = "nan" THEN NaN
    ELSE IF a.k = "inf" THEN (IF a.v > 0 THEN PInf ELSE Zero)
    ELSE IF a.v > 709782 * (SCALE \div 1000) THEN PInf
    ELSE IF a.v < -14 * SCALE THEN Zero
    ELSE Fin(ExpFinite(a.v))

(***************************************************************************)
(* Vec3 (vec3.rs is not among the sources; component-wise as the spec's    *)
(* formulas use it)                                                        *)
(***************************************************************************)
Vec3(x, y, z) == <<Fin(x), Fin(y), Fin(z)>>
Vec3Add(a, b) == <<FAdd(a[1], b[1]), FAdd(a[2], b[2]), FAdd(a[3], b[3])>>
Vec3Scale(a, s) == <<FMul(a[1], s), FMul(a[2], s), FMul(a[3], s)>>
Vec3Dot(a, b) == FAdd(FAdd(FMul(a[1], b[1]), FMul(a[2], b[2])), FMul(a[3], b[3]))
Vec3Len(a) == FSqrt(Vec3Dot(a, a))
\* normalize: each component divided by the length (0/0 = NaN for the zero vector).
Vec3Unit(a) == LET len == Vec3Len(a) IN <<FDiv(a[1], len), FDiv(a[2], len), FDiv(a[3], len)>>
VecFinite(a) == IsFinite(a[1]) /\ IsFinite(a[2]) /\ IsFinite(a[3])
ZeroVec == Vec3(0, 0, 0)

(***************************************************************************)
(* impl Material for CookTorranceMaterial                                  *)
(***************************************************************************)
\* let n1 = 1.0;
n1 == One

Sample(m, n, i, l) ==
    LET h == Vec3Unit(Vec3Add(l, i))
        ambient == Vec3Scale(m.ambient, m.k_a)
        diffuse == Vec3Scale(Vec3Scale(m.diffuse, m.k_d), Vec3Dot(n, l))
        n_dot_h == Vec3Dot(n, h)
        n_dot_l == Vec3Dot(n, l)
        v_dot_h == Vec3Dot(i, h)
        n_dot_v == Vec3Dot(n, i)
        n2 == m.ior
        f0 == FPow(FDiv(FSub(n1, n2), FAdd(n1, n2)), 2)
        f == FAdd(FMul(FPow(FSub(One, v_dot_h), 5), FSub(One, f0)), f0)
        alpha == FAcos(n_dot_h)
        d == FMul(m.gauss_constant, FExp(FDiv(FNeg(alpha), FSqrt(m.roughness))))
        g1 == FDiv(FMul(FMul(Two, n_dot_h), n_dot_v), v_dot_h)
        g2 == FDiv(FMul(FMul(Two, n_dot_h), n_dot_l), v_dot_h)
        g == FMin(g1, g2)
        brdf == FDiv(FMul(FMul(f, d), g), FMul(n_dot_v, n_dot_l))
    IN  Vec3Add(Vec3Add(Vec3Scale(m.specular, FMul(m.k_s, brdf)), diffuse), ambient)

IsReflectiveGe(m) == ~FGt(Zero, m.k_sg) /\ ~IsNaN(m.k_sg)
IsReflective(m) == FGt(m.k_sg, Zero)

IsRefractiveSg(m) == FGt(m.k_sg, Zero)
IsRefractive(m) == FGt(m.k_tg, Zero)

GlobalSpecularTg(m, color) == Vec3Scale(color, m.k_tg)
GlobalSpecular(m, color) == Vec3Scale(color, m.k_sg)

GlobalTransmissive(m, color) == Vec3Scale(color, m.k_tg)

Transmission(m) == m.transmission

Ior(m) == m.ior

(***************************************************************************)
(* from_image (src/src/util/import.rs)                                     *)
(***************************************************************************)
\* Largest image width and height explored.
MaxW == 2
MaxH == 2

\* Pixels a decoded file may hold: 8-bit RGB triples or RGBA quadruples.
RgbPalette == {<<0, 0, 0>>, <<255, 0, 0>>}
RgbaPalette == {<<1, 1, 1, 255>>, <<255, 0, 0, 127>>, <<0, 0, 255, 0>>}

NoImage == [ok |-> FALSE, w |-> 0, h |-> 0, px |-> <<>>]
\* What ::image::open(path) can yield: an error, or a decoded image of either
\* pixel format with its pixels in row-major order.
OpenResults ==
    {NoImage}
    \cup UNION {{[ok |-> TRUE, w |-> w, h |-> h, px |-> f] :
                    f \in [1..(w * h) -> RgbPalette] \cup [1..(w * h) -> RgbaPalette]} :
                w \in 1..MaxW, h \in 1..MaxH}

\* DynamicImage::to_rgba: an RGB pixel becomes opaque RGBA.
ToRgba(px) == [k \in 1..Len(px) |-> IF Len(px[k]) = 3 THEN Append(px[k], 255) ELSE px[k]]

\* ColorRGBA::new_rgba and ColorRGBA::transparent.
NewRgba(r, g, b, a) == [r |-> r, g |-> g, b |-> b, a |-> a]
Transparent == NewRgba(0, 0, 0, 0)

\* Surface::new(width, height, background): a row-major buffer of
\* width * height pixels; surface[(x, y)] is buffer[width * y + x].
SurfaceNew(width, height, background) ==
    [width |-> width, height |-> height, buffer |-> [k \in 1..(width * height) |-> background]]
SurfaceIndex(surface, x, y) == surface.buffer[surface.width * y + x + 1]
NoSurface == SurfaceNew(0, 0, Transparent)

ImgOk(surface) == [ok |-> TRUE, surface |-> surface, err |-> ""]
ImgErr(msg) == [ok |-> FALSE, surface |-> NoSurface, err |-> msg]

\* image.pixels().zip(surface.iter_pixels_mut()): the k-th source pixel is
\* written to the k-th pixel of the buffer, as far as both reach.
CopyPixels(rgba, surface) ==
    [surface EXCEPT !.buffer =
        [k \in 1..Len(surface.buffer) |->
            IF k <= Len(rgba)
            THEN NewRgba(rgba[k][1], rgba[k][2], rgba[k][3], rgba[k][4])
            ELSE surface.buffer[k]]]

\* A slip: the surface built with height and width exchanged.
FromImageSwapped ==
    /\ imgPc = "start"
    /\ imgPc' = "done"
    /\ imgRet' = IF ~imgSrc.ok
                  THEN ImgErr("open failed")
                  ELSE ImgOk(CopyPixels(ToRgba(imgSrc.px),
                                        SurfaceNew(imgSrc.h, imgSrc.w, Transparent)))
    /\ UNCHANGED <<imgSrc, matVars, objVars>>

FromImage ==
    /\ imgPc = "start"
    /\ imgPc' = "done"
    /\ imgRet' = IF ~imgSrc.ok
                  THEN ImgErr("open failed")
                  ELSE ImgOk(CopyPixels(ToRgba(imgSrc.px),
                                        SurfaceNew(imgSrc.w, imgSrc.h, Transparent)))
    /\ UNCHANGED <<imgSrc, matVars, objVars>>

ImgOff == imgSrc = NoImage /\ imgPc = "off" /\ imgRet = ImgErr("")

(***************************************************************************)
(* from_obj (src/src/util/import.rs, and the older src/util/import.rs)     *)
(*                                                                         *)
(* A line of the file is a sequence of characters.  The progress meter     *)
(* (current_line, processed_bytes, print_progress) only prints and is left *)
(* out.                                                                    *)
(***************************************************************************)
\* !0, the usize that stands for "no data available/not supplied".
NotSupplied == -1

Digits == {"0", "1", "2", "3", "4", "5", "6", "7", "8", "9"}
DigitVal(c) ==
    CASE c = "0" -> 0 [] c = "1" -> 1 [] c = "2" -> 2 [] c = "3" -> 3 [] c = "4" -> 4
      [] c = "5" -> 5 [] c = "6" -> 6 [] c = "7" -> 7 [] c = "8" -> 8 [] c = "9" -> 9

\* The one element of a set of one.
Only(S) == CHOOSE x \in S : TRUE

\* The fields of two adjoining pieces of a string: the last field of the
\* first piece and the first field of the second are one field.
JoinFields(left, right) ==
    SubSeq(left, 1, Len(left) - 1) \o <<left[Len(left)] \o right[1]>> \o Tail(right)

\* The fields of str[lo..hi] between characters of seps, empty fields kept,
\* from the fields of its two halves (each half is split once).
RECURSIVE SplitRange(_, _, _, _)
SplitRange(str, seps, lo, hi) ==
    IF lo > hi THEN <<<<>>>>
    ELSE IF lo = hi THEN (IF str[lo] \in seps THEN <<<<>>, <<>>>> ELSE <<<<str[lo]>>>>)
    ELSE Only({JoinFields(left, right) :
                  left \in {SplitRange(str, seps, lo, (lo + hi) \div 2)},
                  right \in {SplitRange(str, seps, (lo + hi) \div 2 + 1, hi)}})
SplitAt(str, seps) == SplitRange(str, seps, 1, Len(str))
\* str::split(sep).
Split(str, sep) == SplitAt(str, {sep})

\* char::is_whitespace: the code points with the White_Space property.
\* U+0009..U+000D, U+0020, U+0085, U+00A0 and U+1680 are written as they are.
AsciiWhitespace == {" ", "\t", "\n", "\r", "\f", ""}
LatinWhitespace == {"", " ", " "}
\* A character may also be written by the name of its code point, as one
\* the text of a module cannot hold must be: U+2000..U+200A, U+2028, U+2029,
\* U+202F, U+205F and U+3000 are the rest of White_Space.
NamedWhitespace ==
    {"U+000B", "U+0085", "U+00A0", "U+1680", "U+2000", "U+2001",
     "U+2002", "U+2003", "U+2004", "U+2005", "U+2006", "U+2007",
     "U+2008", "U+2009", "U+200A", "U+2028", "U+2029", "U+202F",
     "U+205F", "U+3000"}
Whitespace == AsciiWhitespace \cup LatinWhitespace \cup NamedWhitespace

\* str::split_whitespace (words in the older revision): the fields between
\* runs of white space, empty fields dropped.
SplitWhitespace(str) == SelectSeq(SplitAt(str, Whitespace), LAMBDA t : t # <<>>)

\* The decimal value of a sequence of digits.
RECURSIVE DecimalValue(_)
DecimalValue(ds) ==
    IF ds = <<>> THEN 0
    ELSE 10 * DecimalValue(SubSeq(ds, 1, Len(ds) - 1)) + DigitVal(ds[Len(ds)])

AllDigits(ds) == \A k \in 1..Len(ds) : ds[k] \in Digits

\* The number of zeros ds[lo..hi] begins with.
RECURSIVE LeadingZeros(_, _, _)
LeadingZeros(ds, lo, hi) ==
    IF lo > hi THEN 0
    ELSE IF lo = hi THEN (IF ds[lo] = "0" THEN 1 ELSE 0)
    ELSE Only({IF first = (lo + hi) \div 2 - lo + 1
               THEN first + LeadingZeros(ds, (lo + hi) \div 2 + 1, hi)
               ELSE first :
                  first \in {LeadingZeros(ds, lo, (lo + hi) \div 2)}})
StripZeros(ds) == SubSeq(ds, LeadingZeros(ds, 1, Len(ds)) + 1, Len(ds))

\* Whether digit sequence a, as long as b, stands for a larger number.
DigitsGreater(a, b) ==
    \E k \in 1..Len(a) :
        /\ DigitVal(a[k]) > DigitVal(b[k])
        /\ \A j \in 1..(k - 1) : DigitVal(a[j]) = DigitVal(b[j])

\* usize::MAX on a 64-bit target, 18446744073709551615.
UsizeMaxDigits ==
    <<"1", "8", "4", "4", "6", "7", "4", "4", "0", "7",
      "3", "7", "0", "9", "5", "5", "1", "6", "1", "5">>
ExceedsUsize(ds) ==
    LET sig == StripZeros(ds)
    IN  \/ Len(sig) > Len(UsizeMaxDigits)
        \/ Len(sig) = Len(UsizeMaxDigits) /\ DigitsGreater(sig, UsizeMaxDigits)

\* The value of a digit sequence; one of ten or more significant digits is
\* held as 10^9, which like the number itself exceeds every length and
\* exponent the model meets.
SaturatedValue(ds) ==
    LET sig == StripZeros(ds)
    IN  IF Len(sig) > 9 THEN 1000000000 ELSE DecimalValue(sig)

\* str::parse::<usize>() (from_str::<uint>): an optional "+" and one or more
\* digits; None for anything else and for a number above usize::MAX.
ParseUsize(tok) ==
    LET body == IF tok # <<>> /\ tok[1] = "+" THEN Tail(tok) ELSE tok
    IN  IF body # <<>> /\ AllDigits(body) /\ ~ExceedsUsize(body)
        THEN [some |-> TRUE, val |-> SaturatedValue(body)]
        ELSE [some |-> FALSE, val |-> 0]

\* ASCII lower case of the letters of "infinity", "nan" and the exponent mark.
LowerChar(c) ==
    CASE c = "I" -> "i" [] c = "N" -> "n" [] c = "F" -> "f" [] c = "T" -> "t"
      [] c = "Y" -> "y" [] c = "A" -> "a" [] c = "E" -> "e" [] OTHER -> c
Lower(str) == [k \in 1..Len(str) |-> LowerChar(str[k])]

\* m * 10^e in fixed point (e of either sign), rounding toward zero.
RECURSIVE ScalePow10(_, _)
ScalePow10(m, e) ==
    IF e = 0 \/ m = 0 THEN m
    ELSE IF e > 0 THEN ScalePow10(10 * m, e - 1)
    ELSE ScalePow10(m \div 10, e + 1)

\* The magnitude of digits [. digits]: None without any digit.
ParseMantissa(str) ==
    LET parts == Split(str, ".")
        whole == parts[1]
        frac == IF Len(parts) = 2 THEN parts[2] ELSE <<>>
    IN  IF Len(parts) <= 2 /\ AllDigits(whole) /\ AllDigits(frac) /\ Len(whole) + Len(frac) > 0
        THEN [some |-> TRUE,
              digits |-> whole \o frac,
              point |-> Len(frac)]
        ELSE [some |-> FALSE, digits |-> <<>>, point |-> 0]

\* The exponent after "e": an optional sign and one or more digits.
ParseExponent(str) ==
    LET signed == str # <<>> /\ str[1] \in {"+", "-"}
        ds == IF signed THEN Tail(str) ELSE str
    IN  IF ds # <<>> /\ AllDigits(ds)
        THEN [some |-> TRUE,
              val |-> IF signed /\ str[1] = "-" THEN -SaturatedValue(ds) ELSE SaturatedValue(ds)]
        ELSE [some |-> FALSE, val |-> 0]

\* The fixed-point value of the decimal digits * 10^(exp - point): the first
\* significant digits that reach the representation, the rest rounded away.
DecimalToFixed(digits, point, exp) ==
    LET sig == StripZeros(digits)
        \* keep at most nine significant digits; the dropped ones count as zeros
        kept == IF Len(sig) > 9 THEN SubSeq(sig, 1, 9) ELSE sig
        shift == (Len(sig) - Len(kept)) + exp - point + 3
    IN  IF shift < -10 THEN 0
        ELSE ScalePow10(DecimalValue(kept), shift) * (SCALE \div 1000)

\* The 309 digits of 2^1024 - 2^970, half way from f64::MAX to 2^1024: a
\* decimal at or above it rounds to infinity (the tie goes to the even side).
F64RoundsToInf ==
    <<"1", "7", "9", "7", "6", "9", "3", "1", "3", "4", "8", "6", "2", "3", "1", "5", "8", "0", "7", "9",
      "3", "7", "2", "8", "9", "7", "1", "4", "0", "5", "3", "0", "3", "4", "1", "5", "0", "7", "9", "9",
      "3", "4", "1", "3", "2", "7", "1", "0", "0", "3", "7", "8", "2", "6", "9", "3", "6", "1", "7", "3",
      "7", "7", "8", "9", "8", "0", "4", "4", "4", "9", "6", "8", "2", "9", "2", "7", "6", "4", "7", "5",
      "0", "9", "4", "6", "6", "4", "9", "0", "1", "7", "9", "7", "7", "5", "8", "7", "2", "0", "7", "0",
      "9", "6", "3", "3", "0", "2", "8", "6", "4", "1", "6", "6", "9", "2", "8", "8", "7", "9", "1", "0",
      "9", "4", "6", "5", "5", "5", "5", "4", "7", "8", "5", "1", "9", "4", "0", "4", "0", "2", "6", "3",
      "0", "6", "5", "7", "4", "8", "8", "6", "7", "1", "5", "0", "5", "8", "2", "0", "6", "8", "1", "9",
      "0", "8", "9", "0", "2", "0", "0", "0", "7", "0", "8", "3", "8", "3", "6", "7", "6", "2", "7", "3",
      "8", "5", "4", "8", "4", "5", "8", "1", "7", "7", "1", "1", "5", "3", "1", "7", "6", "4", "4", "7",
      "5", "7", "3", "0", "2", "7", "0", "0", "6", "9", "8", "5", "5", "5", "7", "1", "3", "6", "6", "9",
      "5", "9", "6", "2", "2", "8", "4", "2", "9", "1", "4", "8", "1", "9", "8", "6", "0", "8", "3", "4",
      "9", "3", "6", "4", "7", "5", "2", "9", "2", "7", "1", "9", "0", "7", "4", "1", "6", "8", "4", "4",
      "4", "3", "6", "5", "5", "1", "0", "7", "0", "4", "3", "4", "2", "7", "1", "1", "5", "5", "9", "6",
      "9", "9", "5", "0", "8", "0", "9", "3", "0", "4", "2", "8", "8", "0", "1", "7", "7", "9", "0", "4",
      "1", "7", "4", "4", "9", "7", "7", "9", "2">>
\* A digit of ds, zero past its end.
DigitAt(ds, k) == IF k <= Len(ds) THEN ds[k] ELSE "0"
\* ds with zeros appended up to n digits.
PadDigits(ds, n) == [k \in 1..n |-> DigitAt(ds, k)]
\* Whether the decimal digits * 10^(exp - point) is too large for an f64:
\* more than 309 digits before the point, or 309 and not below the bound.
ExceedsF64(digits, point, exp) ==
    LET sig == StripZeros(digits)
        places == Len(sig) + exp - point
        n == IF Len(sig) > Len(F64RoundsToInf) THEN Len(sig) ELSE Len(F64RoundsToInf)
    IN  /\ sig # <<>>
        /\ \/ places > Len(F64RoundsToInf)
           \/ /\ places = Len(F64RoundsToInf)
              /\ ~DigitsGreater(PadDigits(F64RoundsToInf, n), PadDigits(sig, n))

\* str::parse::<f64>() (from_str::<f64>): an optional sign, then "inf",
\* "infinity" or "nan" in any case, or digits with an optional decimal point
\* and an optional exponent.
ParseF64(tok) ==
    LET signed == tok # <<>> /\ tok[1] \in {"+", "-"}
        neg == signed /\ tok[1] = "-"
        body == Lower(IF signed THEN Tail(tok) ELSE tok)
        parts == Split(body, "e")
        mant == ParseMantissa(parts[1])
        expo == IF Len(parts) = 2 THEN ParseExponent(parts[2]) ELSE [some |-> TRUE, val |-> 0]
        mag == DecimalToFixed(mant.digits, mant.point, expo.val)
        huge == ExceedsF64(mant.digits, mant.point, expo.val)
    IN  IF body \in {<<"i", "n", "f">>, <<"i", "n", "f", "i", "n", "i", "t", "y">>}
        THEN [some |-> TRUE, val |-> IF neg THEN NInf ELSE PInf]
        ELSE IF body = <<"n", "a", "n">> THEN [some |-> TRUE, val |-> NaN]
        ELSE IF Len(parts) <= 2 /\ mant.some /\ expo.some
        THEN [some |-> TRUE,
              val |-> IF huge THEN (IF neg THEN NInf ELSE PInf)
                      ELSE Fin(IF neg THEN -mag ELSE mag)]
        ELSE [some |-> FALSE, val |-> NaN]

\* seq[i] of a Vec or slice with a zero-based index: in bounds or a panic.
InBounds(seq, i) == i >= 0 /\ i < Len(seq)
At(seq, i) == seq[i + 1]

Panicked == [ok |-> FALSE]

\* tokens[1..k] all present and all parsing as f64 (each .unwrap() succeeds).
CoordsOk(tokens, k) ==
    /\ Len(tokens) > k
    /\ \A j \in 1..k : ParseF64(At(tokens, j)).some
Coord(tokens, j) == ParseF64(At(tokens, j)).val

\* One face token: "1/2/3" => [0, 1, 2], "12//4" => [11, !0, 3].  usize_tok - 1
\* on 0 overflows: a panic with overflow checks, !0 without them.
FaceIndices(token, checked) ==
    LET str_tokens == Split(token, "/")
    IN  [k \in 1..Len(str_tokens) |->
            LET parsed == ParseUsize(str_tokens[k])
            IN  IF ~parsed.some THEN NotSupplied
                ELSE IF parsed.val = 0 THEN (IF checked THEN -2 ELSE NotSupplied)
                ELSE parsed.val - 1]
FaceOverflows(pairs) == \E a \in 1..Len(pairs) : \E b \in 1..Len(pairs[a]) : pairs[a][b] = -2

Triangle(pos, n, u, v, material) == [pos |-> pos, n |-> n, u |-> u, v |-> v, material |-> material]

\* The "f" arm of src/src/util/import.rs.
FaceNew(tokens, checked, vs, ns, tcs, material) ==
    LET pairs == [k \in 1..(Len(tokens) - 1) |-> FaceIndices(tokens[k + 1], checked)]
        has(a, b) == a < Len(pairs) /\ b < Len(pairs[a + 1])
        idx(a, b) == pairs[a + 1][b + 1]
        textured == idx(0, 1) # NotSupplied
        texOk == \A a \in 0..2 : has(a, 1) /\ InBounds(tcs, idx(a, 1))
        u == IF textured THEN [a \in 1..3 |-> At(tcs, idx(a - 1, 1))[1]] ELSE <<Zero, Zero, Zero>>
        v == IF textured THEN [a \in 1..3 |-> At(tcs, idx(a - 1, 1))[2]] ELSE <<Zero, Zero, Zero>>
        vertsOk == \A a \in 0..2 :
                      /\ has(a, 0) /\ InBounds(vs, idx(a, 0))
                      /\ has(a, 2) /\ InBounds(ns, idx(a, 2))
    IN  IF FaceOverflows(pairs) THEN Panicked
        ELSE IF ~has(0, 1) THEN Panicked
        ELSE IF textured /\ ~texOk THEN Panicked
        ELSE IF ~vertsOk THEN Panicked
        ELSE [ok |-> TRUE,
              tri |-> Triangle([a \in 1..3 |-> At(vs, idx(a - 1, 0))],
                               [a \in 1..3 |-> At(ns, idx(a - 1, 2))],
                               u, v, material)]

\* One line of the loop body of src/src/util/import.rs.
LineNew(line, flip, checked, vs, ns, tcs, tris, material) ==
    LET tokens == SplitWhitespace(line)
        same == [ok |-> TRUE, vs |-> vs, ns |-> ns, tcs |-> tcs, tris |-> tris]
        normal_scale == IF flip THEN Fin(-SCALE) ELSE One
        face == FaceNew(tokens, checked, vs, ns, tcs, material)
    IN  IF Len(tokens) = 0 THEN same
        ELSE CASE tokens[1] = <<"v">> ->
                    IF ~CoordsOk(tokens, 3) THEN Panicked
                    ELSE [same EXCEPT !.vs = Append(vs,
                            <<Coord(tokens, 1), Coord(tokens, 2), Coord(tokens, 3)>>)]
               [] tokens[1] = <<"v", "t">> ->
                    IF ~CoordsOk(tokens, 2) THEN Panicked
                    ELSE [same EXCEPT !.tcs = Append(tcs, <<Coord(tokens, 1), Coord(tokens, 2)>>)]
               [] tokens[1] = <<"v", "n">> ->
                    IF ~CoordsOk(tokens, 3) THEN Panicked
                    ELSE [same EXCEPT !.ns = Append(ns,
                            <<FMul(Coord(tokens, 1), normal_scale),
                              FMul(Coord(tokens, 2), normal_scale),
                              FMul(Coord(tokens, 3), normal_scale)>>)]
               [] tokens[1] = <<"f">> ->
                    IF ~face.ok THEN Panicked
                    ELSE [same EXCEPT !.tris = Append(tris, face.tri)]
               [] OTHER -> same

\* get_tex_coord and get_string_index of src/util/import.rs: the index string
\* parses and x - 1 is in bounds, or the call fails.
StringIndexOk(i, vec) == ParseUsize(i).some /\ InBounds(vec, ParseUsize(i).val - 1)
GetStringIndex(i, vec) == At(vec, ParseUsize(i).val - 1)
GetTexCoord(i, tcs) == At(tcs, ParseUsize(i).val - 1)[1]

\* The "f" arm of src/util/import.rs (the older revision).
FaceOld(tokens, vs, ns, tcs, material) ==
    LET vx == [a \in 1..3 |-> Split(tokens[a + 1], "/")]
        has(a, b) == b < Len(vx[a])
        textured == Len(At(vx[1], 1)) > 0
        texOk == \A a \in 1..3 :
                    /\ has(a, 1) /\ StringIndexOk(At(vx[a], 1), tcs)
                    /\ has(a, 2) /\ StringIndexOk(At(vx[a], 2), tcs)
        u == IF textured THEN [a \in 1..3 |-> GetTexCoord(At(vx[a], 1), tcs)]
             ELSE <<Zero, Zero, Zero>>
        v == IF textured THEN [a \in 1..3 |-> GetTexCoord(At(vx[a], 2), tcs)]
             ELSE <<Zero, Zero, Zero>>
        vertsOk == /\ \A a \in 1..3 : StringIndexOk(At(vx[a], 0), vs)
                   /\ \A a \in 1..3 : has(a, 2) /\ StringIndexOk(At(vx[a], 2), ns)
    IN  IF ~has(1, 1) THEN Panicked
        ELSE IF textured /\ ~texOk THEN Panicked
        ELSE IF ~vertsOk THEN Panicked
        ELSE [ok |-> TRUE,
              tri |-> Triangle([a \in 1..3 |-> GetStringIndex(At(vx[a], 0), vs)],
                               [a \in 1..3 |-> GetStringIndex(At(vx[a], 2), ns)],
                               u, v, material)]

\* parse_coord_str: f * scale, or a failure.
ParseCoordStr(coord, scale) == FMul(ParseF64(coord).val, scale)

\* One line of the loop body of src/util/import.rs (the older revision).
LineOld(line, flip, scale, vs, ns, tcs, tris, material) ==
    LET tokens == SplitWhitespace(line)
        same == [ok |-> TRUE, vs |-> vs, ns |-> ns, tcs |-> tcs, tris |-> tris]
        normals_flip_scale == FMul(IF flip THEN Fin(-SCALE) ELSE One, scale)
        nscale == FMul(scale, normals_flip_scale)
        face == FaceOld(tokens, vs, ns, tcs, material)
    IN  IF Len(tokens) < 4 THEN same
        ELSE CASE tokens[1] = <<"v">> ->
                    IF ~CoordsOk(tokens, 3) THEN Panicked
                    ELSE [same EXCEPT !.vs = Append(vs,
                            <<ParseCoordStr(At(tokens, 1), scale),
                              ParseCoordStr(At(tokens, 2), scale),
                              ParseCoordStr(At(tokens, 3), scale)>>)]
               [] tokens[1] = <<"v", "t">> ->
                    IF ~CoordsOk(tokens, 2) THEN Panicked
                    ELSE [same EXCEPT !.tcs = Append(tcs,
                            <<ParseCoordStr(At(tokens, 1), scale),
                              ParseCoordStr(At(tokens, 2), scale),
                              Zero>>)]
               [] tokens[1] = <<"v", "n">> ->
                    IF ~CoordsOk(tokens, 3) THEN Panicked
                    ELSE [same EXCEPT !.ns = Append(ns,
                            <<ParseCoordStr(At(tokens, 1), nscale),
                              ParseCoordStr(At(tokens, 2), nscale),
                              ParseCoordStr(At(tokens, 3), nscale)>>)]
               [] tokens[1] = <<"f">> ->
                    IF ~face.ok THEN Panicked
                    ELSE [same EXCEPT !.tris = Append(tris, face.tri)]
               [] OTHER -> same

\* A line the reader cannot deliver (lines() yields Err: the path is a
\* directory, or the bytes are not UTF-8).
IoErrorLine == <<"Err">>

\* File::open and the file's size: the call panics when the file cannot be
\* opened or its metadata cannot be read (path.stat() in the older revision).
ObjOpen ==
    /\ objPc = "open"
    /\ objPc' = IF objIo = "ok" THEN "reading" ELSE "panic"
    /\ UNCHANGED <<objFile, objFlip, objRev, objPos, objIo, vertices, normals, tex_coords,
                   triangles, matVars, imgVars>>

\* for line_iter in file.lines() { ... }: the next line is read and handled;
\* line_iter.unwrap() (fail!(e) in the older revision) panics on a line that
\* cannot be read.
ObjReadLine ==
    /\ objPc = "reading"
    /\ objPos <= Len(objFile)
    /\ \E r \in {IF objFile[objPos] = IoErrorLine THEN Panicked
                   ELSE IF objRev.rev = "new"
                   THEN LineNew(objFile[objPos], objFlip, objRev.checked,
                                vertices, normals, tex_coords, triangles, mat)
                   ELSE LineOld(objFile[objPos], objFlip, objRev.scale,
                                vertices, normals, tex_coords, triangles, mat)} :
           IF r.ok
           THEN /\ vertices' = r.vs
                /\ normals' = r.ns
                /\ tex_coords' = r.tcs
                /\ triangles' = r.tris
                /\ objPos' = objPos + 1
                /\ objPc' = objPc
           ELSE /\ objPc' = "panic"
                /\ UNCHANGED <<vertices, normals, tex_coords, triangles, objPos>>
    /\ UNCHANGED <<objFile, objFlip, objRev, objIo, matVars, imgVars>>

\* The loop ends at the end of the file and the Mesh is returned.
ObjFinish ==
    /\ objPc = "reading"
    /\ objPos > Len(objFile)
    /\ objPc' = "done"
    /\ UNCHANGED <<objFile, objFlip, objRev, objPos, objIo, vertices, normals, tex_coords,
                   triangles, matVars, imgVars>>

ObjOff ==
    /\ objFile = <<>> /\ objFlip = FALSE /\ objRev = [rev |-> "new", checked |-> TRUE, scale |-> One]
    /\ objPos = 1 /\ objPc = "off" /\ objIo = "ok"
    /\ vertices = <<>> /\ normals = <<>> /\ tex_coords = <<>> /\ triangles = <<>>

\* The files the model reads: a header of vertex, normal and texture lines,
\* then one face line of three vertex tokens.
RECURSIVE JoinWords(_)
JoinWords(words) ==
    IF Len(words) = 0 THEN <<>>
    ELSE IF Len(words) = 1 THEN words[1]
    ELSE words[1] \o <<" ">> \o JoinWords(Tail(words))

VLine(x, y, z) == JoinWords(<<<<"v">>, x, y, z>>)
PlainHeader ==
    <<VLine(<<"1">>, <<"0">>, <<"0">>),
      VLine(<<"0">>, <<"1">>, <<"0">>),
      VLine(<<"0">>, <<"0">>, <<"1">>),
      JoinWords(<<<<"v", "n">>, <<"0">>, <<"0">>, <<"1">>>>)>>
TexturedHeader ==
    <<JoinWords(<<<<"#">>, <<"o">>>>),
      VLine(<<"1">>, <<"0">>, <<"0">>),
      <<"v", "\t", "0", "\t", "+", "1", "\t", "0">>,
      <<>>,
      VLine(<<"0">>, <<"0">>, <<"-", "1", ".", "5">>),
      JoinWords(<<<<"v", "t">>, <<"0">>, <<"0">>, <<"0">>>>),
      JoinWords(<<<<"v", "t">>, <<"1", "e", "0">>, <<"0", ".", "5">>, <<"0">>>>),
      JoinWords(<<<<"v", "n">>, <<"0">>, <<"0">>, <<"1">>>>)>>
Headers == {PlainHeader, TexturedHeader}

FaceTokens ==
    {<<"1">>, <<"2">>, <<"3">>,
     <<"1", "/", "/", "1">>, <<"+", "2", "/", "/", "1">>,
     <<"1", "/", "1", "/", "1">>,
     <<"0", "/", "/", "1">>}
FaceLines == {JoinWords(<<<<"f">>, a, b, c>>) : a \in FaceTokens, b \in FaceTokens, c \in FaceTokens}
ObjFiles == {Append(hd, f) : hd \in Headers, f \in FaceLines}
\* Files that stop being readable: at once, or after the header.
BrokenFiles == {<<IoErrorLine>>, Append(PlainHeader, IoErrorLine)}
\* The revision that runs, with the build's overflow checks (newer revision)
\* or the scale argument (older revision).
Revisions ==
    {[rev |-> "new", checked |-> c, scale |-> One] : c \in BOOLEAN}
    \cup {[rev |-> "old", checked |-> FALSE, scale |-> sc] : sc \in {One, Two}}

(***************************************************************************)
(* Materials and directions the model draws from                           *)
(***************************************************************************)
\* Number of callers (shading threads) sharing the material.
NumThreads == 2
Threads == 1..NumThreads

\* k_a, k_d, k_s: absent or present.
KaVals == {Zero, Fin(100)}
KdVals == {Zero, Fin(600)}
KsVals == {Zero, Fin(300)}
\* k_sg: negative, zero, the smallest positive value, and larger ones.
KsgVals == {Fin(-500), Zero, Fin(1), Fin(500), Fin(5 * SCALE)}
KtgVals == {Fin(-500), Zero, Fin(500)}
\* roughness and ior: the struct is built by a literal with public fields,
\* so nothing keeps a negative roughness or a non-positive ior out.
RoughnessVals == {Fin(-200), Zero, Fin(200)}
IorVals == {Fin(-SCALE), Zero, Fin(1500)}
SpecularVals == {Vec3(SCALE, SCALE, SCALE), Vec3(SCALE, 500, 0)}

Material(ka, kd, ks, ksg, ktg, spec, rough, ior) ==
    [k_a |-> ka, k_d |-> kd, k_s |-> ks, k_sg |-> ksg, k_tg |-> ktg,
     ambient |-> Vec3(SCALE, 500, 200),
     diffuse |-> Vec3(800, SCALE, 400),
     transmission |-> Vec3(0, 0, SCALE),
     specular |-> spec,
     roughness |-> rough,
     gauss_constant |-> One,
     ior |-> ior]

Materials ==
    {Material(ka, kd, ks, ksg, ktg, Vec3(SCALE, SCALE, SCALE), rough, ior) :
        ka \in KaVals, kd \in KdVals, ks \in KsVals, ksg \in {Zero, Fin(500)},
        ktg \in {Zero, Fin(500)}, rough \in RoughnessVals, ior \in IorVals}
    \cup
    {Material(Fin(100), Fin(600), Fin(300), ksg, ktg, spec, Fin(200), Fin(1500)) :
        ksg \in KsgVals, ktg \in KtgVals, spec \in SpecularVals}

\* The material of the spec's round-trip example, and variants of it.
SharedMaterials ==
    {Material(Fin(100), Fin(600), Fin(300), ksg, Fin(500), Vec3(SCALE, SCALE, SCALE),
              Fin(200), Fin(1500)) : ksg \in {Zero, Fin(500)}}

\* Unit directions: two axes, one reversed, and one oblique (0.6, 0, 0.8).
AxisX == Vec3(SCALE, 0, 0)
AxisZ == Vec3(0, 0, SCALE)
NegZ == Vec3(0, 0, -SCALE)
Oblique == Vec3(600, 0, 800)
Dirs == {AxisX, AxisZ, NegZ, Oblique}
Colors == {Vec3(SCALE, SCALE, SCALE), Vec3(500, 250, 0)}

SampleCalls == {[op |-> "sample", n |-> n, i |-> i, l |-> l] : n \in Dirs, i \in Dirs, l \in Dirs}
ColorCall(op, c) == [op |-> op, n |-> c, i |-> ZeroVec, l |-> ZeroVec]
PlainCall(op) == [op |-> op, n |-> ZeroVec, i |-> ZeroVec, l |-> ZeroVec]
OtherCalls ==
    {ColorCall(op, c) : op \in {"global_specular", "global_transmissive"}, c \in Colors}
    \cup {PlainCall(op) : op \in {"is_reflective", "is_refractive", "transmission", "ior"}}
Calls == SampleCalls \cup OtherCalls
SharedCalls ==
    {[op |-> "sample", n |-> AxisZ, i |-> i, l |-> l] : i \in {AxisZ, Oblique}, l \in {AxisZ, NegZ}}
    \cup OtherCalls
NoCall == PlainCall("none")

(***************************************************************************)
(* Callers of the material                                                 *)
(***************************************************************************)
RetBool(b) == [kind |-> "bool", b |-> b, v |-> ZeroVec, f |-> Zero]
RetVec(v) == [kind |-> "vec", b |-> FALSE, v |-> v, f |-> Zero]
RetF64(f) == [kind |-> "f64", b |-> FALSE, v |-> ZeroVec, f |-> f]
NoRet == [kind |-> "none", b |-> FALSE, v |-> ZeroVec, f |-> Zero]

\* What method c.op returns on material m with the arguments of c.
Eval(m, c) ==
    CASE c.op = "sample" -> RetVec(Sample(m, c.n, c.i, c.l))
      [] c.op = "is_reflective" -> RetBool(IsReflective(m))
      [] c.op = "is_refractive" -> RetBool(IsRefractive(m))
      [] c.op = "global_specular" -> RetVec(GlobalSpecular(m, c.n))
      [] c.op = "global_transmissive" -> RetVec(GlobalTransmissive(m, c.n))
      [] c.op = "transmission" -> RetVec(Transmission(m))
      [] c.op = "ior" -> RetF64(Ior(m))

\* A caller enters a method with its arguments (all methods take &self); the
\* value its previous call returned has been consumed.
Begin(p, c) ==
    /\ pc[p] # "running"
    /\ pc' = [pc EXCEPT ![p] = "running"]
    /\ call' = [call EXCEPT ![p] = c]
    /\ ret' = [ret EXCEPT ![p] = NoRet]
    /\ UNCHANGED <<mat, mat0, imgVars, objVars>>

\* A slip that would break sharing: sample caching sqrt(roughness) in the field.
FinishCaching(p) ==
    /\ pc[p] = "running"
    /\ pc' = [pc EXCEPT ![p] = "done"]
    /\ ret' = [ret EXCEPT ![p] = Eval(mat, call[p])]
    /\ mat' = IF call[p].op = "sample"
                 THEN [mat EXCEPT !.roughness = FSqrt(mat.roughness)]
                 ELSE mat
    /\ UNCHANGED <<mat0, call, imgVars, objVars>>

\* The method body runs, reading the fields of the shared material, and returns.
Finish(p) ==
    /\ pc[p] = "running"
    /\ pc' = [pc EXCEPT ![p] = "done"]
    /\ ret' = [ret EXCEPT ![p] = Eval(mat, call[p])]
    /\ UNCHANGED <<mat, mat0, call, imgVars, objVars>>

MatInit(ms) ==
    /\ mat \in ms
    /\ mat0 = mat
    /\ pc = [p \in Threads |-> "idle"]
    /\ call = [p \in Threads |-> NoCall]
    /\ ret = [p \in Threads |-> NoRet]

\* One caller at a time: the integrator's calls on one material, each run alone.
Init == MatInit(Materials) /\ ImgOff /\ ObjOff
Next ==
    \/ \E c \in Calls : Begin(1, c)
    \/ Finish(1)
Spec == Init /\ [][Next]_vars

\* Many callers sharing one material, their calls interleaved.
InitShared == MatInit(SharedMaterials) /\ ImgOff /\ ObjOff
NextShared ==
    \/ \E p \in Threads, c \in SharedCalls : Begin(p, c)
    \/ \E p \in Threads : Finish(p)
SpecShared == InitShared /\ [][NextShared]_vars
MatOff ==
    /\ mat = Material(Zero, Zero, Zero, Zero, Zero, ZeroVec, One, One)
    /\ mat0 = mat
    /\ pc = [p \in Threads |-> "idle"]
    /\ call = [p \in Threads |-> NoCall]
    /\ ret = [p \in Threads |-> NoRet]

\* One call of from_image on one path.
InitImage == imgSrc \in OpenResults /\ imgPc = "start" /\ imgRet = ImgErr("") /\ MatOff /\ ObjOff
NextImage == FromImage
SpecImage == InitImage /\ [][NextImage]_vars

\* One call of from_obj on one file.
InitObj ==
    /\ \/ objIo = "ok" /\ objFile \in ObjFiles \cup BrokenFiles
       \/ objIo \in {"noopen", "nometa"} /\ objFile = <<>>
    /\ objFlip \in BOOLEAN /\ objRev \in Revisions
    /\ objPos = 1 /\ objPc = "open"
    /\ vertices = <<>> /\ normals = <<>> /\ tex_coords = <<>> /\ triangles = <<>>
    /\ MatOff /\ ImgOff
NextObj == ObjOpen \/ ObjReadLine \/ ObjFinish
SpecObj == InitObj /\ [][NextObj]_vars

(***************************************************************************)
(* Properties of the material                                              *)
(***************************************************************************)
\* Parameters inside the domain the data model gives (roughness > 0, ior > 0).
ValidParams(m) == FGt(m.roughness, Zero) /\ FGt(m.ior, Zero)
Returned(p, op) == pc[p] = "done" /\ call[p].op = op
FMax0(a) == IF FGt(a, Zero) THEN a ELSE IF IsNaN(a) THEN a ELSE Zero

\* C1: under every interleaving of calls by concurrent callers on one shared
\* material, the twelve parameters keep the values they had at construction
\* and every finished call has returned what it returns when run alone on
\* the material as constructed.
C1_SharedReadOnly ==
    /\ mat = mat0
    /\ \A p \in Threads : pc[p] = "done" => ret[p] = Eval(mat0, call[p])
\* Two callers inside sample at once, and later one of them has returned
\* while the other is still inside.
C1_Witness ==
    \E p \in Threads, q \in Threads :
        /\ p # q
        /\ Returned(p, "sample") /\ VecFinite(ret[p].v)
        /\ pc[q] = "running" /\ call[q].op = "sample" /\ call[q] # call[p]

\* C2: a material with k_d = 0, k_s = 0 and k_a > 0 returns exactly
\* ambient * k_a from sample, for all n, i, l (here: also with roughness and
\* ior inside their domain).
C2_AmbientOnly ==
    \A p \in Threads :
        (/\ Returned(p, "sample")
         /\ mat.k_d = Zero /\ mat.k_s = Zero /\ FGt(mat.k_a, Zero)
         /\ ValidParams(mat))
        => ret[p].v = Vec3Scale(mat.ambient, mat.k_a)

\* C3: with k_a = 0 and k_s = 0, sample returns diffuse * k_d * max(dot(n,l), 0),
\* so no channel is negative when the light is below the surface (stated here
\* for the calls that return a finite color).
C3_DiffuseClamped ==
    \A p \in Threads :
        (/\ Returned(p, "sample")
         /\ mat.k_a = Zero /\ mat.k_s = Zero
         /\ ValidParams(mat)
         /\ VecFinite(ret[p].v))
        => ret[p].v = Vec3Scale(Vec3Scale(mat.diffuse, mat.k_d),
                                FMax0(Vec3Dot(call[p].n, call[p].l)))

\* C4: sample never returns a color with a NaN or infinite channel (for a
\* material whose roughness and ior are inside their domain).
C4_FiniteColor ==
    \A p \in Threads :
        (Returned(p, "sample") /\ ValidParams(mat)) => VecFinite(ret[p].v)

\* C5: no sample call is ever made on a material whose roughness is negative
\* or whose ior is not positive, because such a material cannot be built.
C5_ValidatedAtConstruction ==
    \A p \in Threads :
        (pc[p] # "idle" /\ call[p].op = "sample")
        => ~FGt(Zero, mat.roughness) /\ FGt(mat.ior, Zero)

\* C6: is_reflective() returns true exactly when k_sg is strictly greater
\* than 0, whatever the other parameters are.
C6_ReflectiveIffPositive ==
    \A p \in Threads :
        Returned(p, "is_reflective")
        => /\ ret[p].kind = "bool"
           /\ ret[p].b = (IF mat.k_sg.k = "fin" THEN mat.k_sg.v > 0 ELSE mat.k_sg = PInf)
\* is_reflective has returned true for the smallest positive k_sg, on a
\* material that is not refractive.
C6_Witness ==
    \E p \in Threads :
        /\ Returned(p, "is_reflective") /\ ret[p].b
        /\ mat.k_sg = Fin(1) /\ ~FGt(mat.k_tg, Zero)

\* C7: is_refractive() returns true exactly when k_tg is strictly greater
\* than 0, independent of k_sg and of every other parameter.
C7_RefractiveIffPositive ==
    \A p \in Threads :
        Returned(p, "is_refractive")
        => /\ ret[p].kind = "bool"
           /\ ret[p].b = (IF mat.k_tg.k = "fin" THEN mat.k_tg.v > 0 ELSE mat.k_tg = PInf)
\* is_refractive has returned true on a material whose k_sg is zero.
C7_Witness ==
    \E p \in Threads :
        /\ Returned(p, "is_refractive") /\ ret[p].b
        /\ mat.k_sg = Zero /\ mat.k_tg = Fin(500)

\* C8: global_specular returns the input color with each channel multiplied
\* by k_sg and by nothing else; (1,1,1) gives (k_sg, k_sg, k_sg).
C8_GlobalSpecularScales ==
    \A p \in Threads :
        Returned(p, "global_specular")
        => /\ \A ch \in 1..3 :
                ret[p].v[ch] = Fin(TDiv(call[p].n[ch].v * mat.k_sg.v, SCALE))
           /\ call[p].n = <<One, One, One>> => ret[p].v = <<mat.k_sg, mat.k_sg, mat.k_sg>>
\* global_specular has scaled (1,1,1) on a material whose k_tg and specular
\* color differ from k_sg.
C8_Witness ==
    \E p \in Threads :
        /\ Returned(p, "global_specular")
        /\ call[p].n = <<One, One, One>>
        /\ mat.k_sg = Fin(500) /\ mat.k_tg = Fin(-500)
        /\ mat.specular = Vec3(SCALE, 500, 0)
        /\ ret[p].v = Vec3(500, 500, 500)
(***************************************************************************)
(* Properties of the importers                                             *)
(***************************************************************************)
\* The RGBA value of the source image at (x, y), as GenericImage::get_pixel
\* gives it.
SourcePixel(img, x, y) ==
    LET raw == img.px[y * img.w + x + 1]
    IN  [r |-> raw[1], g |-> raw[2], b |-> raw[3], a |-> IF Len(raw) = 4 THEN raw[4] ELSE 255]

\* C9: when from_image succeeds on an image of width W and height H, the
\* surface has width W and height H and the same (r, g, b, a) as the image
\* at every (x, y); when the image cannot be opened it returns Err with a
\* message.
C9_FromImageCopies ==
    imgPc = "done"
    => IF imgSrc.ok
       THEN /\ imgRet.ok
            /\ imgRet.surface.width = imgSrc.w
            /\ imgRet.surface.height = imgSrc.h
            /\ \A x \in 0..(imgSrc.w - 1), y \in 0..(imgSrc.h - 1) :
                    SurfaceIndex(imgRet.surface, x, y) = SourcePixel(imgSrc, x, y)
       ELSE ~imgRet.ok /\ imgRet.err # ""
\* A 2 x 1 image with two different pixels, one of them translucent, imported.
C9_Witness ==
    /\ imgPc = "done" /\ imgSrc.ok /\ imgRet.ok
    /\ imgSrc.w = 2 /\ imgSrc.h = 1
    /\ SurfaceIndex(imgRet.surface, 0, 0) = NewRgba(255, 0, 0, 127)
    /\ SurfaceIndex(imgRet.surface, 1, 0) = NewRgba(0, 0, 255, 0)
\* The vertex tokens of a face line, each split at "/".
FaceFields(line) ==
    LET tokens == SplitWhitespace(line)
    IN  [a \in 1..(Len(tokens) - 1) |-> Split(tokens[a + 1], "/")]
IsFaceLine(line) ==
    LET tokens == SplitWhitespace(line) IN Len(tokens) = 4 /\ tokens[1] = <<"f">>
\* No vertex of the face supplies a texture index: `a//c` or a bare `a`.
NoTextureIndex(line) ==
    \A a \in 1..3 : LET fs == FaceFields(line)[a] IN Len(fs) = 1 \/ (Len(fs) = 3 /\ fs[2] = <<>>)
\* Every vertex index, and every normal index that is given, names a line
\* read before.
IndexDefined(field, vec) ==
    ParseUsize(field).some /\ ParseUsize(field).val \in 1..Len(vec)
IndicesDefined(line) ==
    \A a \in 1..3 :
        LET fs == FaceFields(line)[a]
        IN  /\ IndexDefined(fs[1], vertices)
            /\ Len(fs) = 3 => IndexDefined(fs[3], normals)
FacesBefore(k) == Cardinality({j \in 1..(k - 1) : IsFaceLine(objFile[j])})

\* C10: in from_obj, a face line whose vertices supply no texture coordinates
\* (`a//c` or a bare `a`), on a file whose referenced vertex and normal
\* indices are all defined, produces one triangle with u = v = (0, 0, 0).
C10_UntexturedFaceIsZero ==
    \A k \in 1..Len(objFile) :
        (/\ IsFaceLine(objFile[k]) /\ NoTextureIndex(objFile[k]) /\ IndicesDefined(objFile[k])
         /\ (k < objPos \/ (k = objPos /\ objPc = "panic")))
        => /\ k < objPos
           /\ Len(triangles) > FacesBefore(k)
           /\ triangles[FacesBefore(k) + 1].u = <<Zero, Zero, Zero>>
           /\ triangles[FacesBefore(k) + 1].v = <<Zero, Zero, Zero>>
\* The same for the `a//c` form alone, which both revisions handle.
C10_EmptyFieldFaceIsZero ==
    \A k \in 1..Len(objFile) :
        (/\ IsFaceLine(objFile[k]) /\ NoTextureIndex(objFile[k]) /\ IndicesDefined(objFile[k])
         /\ \A a \in 1..3 : Len(FaceFields(objFile[k])[a]) = 3
         /\ (k < objPos \/ (k = objPos /\ objPc = "panic")))
        => /\ k < objPos
           /\ Len(triangles) > FacesBefore(k)
           /\ triangles[FacesBefore(k) + 1].u = <<Zero, Zero, Zero>>
           /\ triangles[FacesBefore(k) + 1].v = <<Zero, Zero, Zero>>
====
